---- MODULE Spec2Model ----
(***************************************************************************)
(* Speed Snooker timer: the FrameController (frame clock + shot clock) of  *)
(* src/pi_test_2.py (identical in ALPHA_TEST.py, BETA_TEST.py, pi_test.py) *)
(* and the calls SpeedSnookerUI makes on it.                               *)
(*                                                                         *)
(* Time is counted in ticks, Res ticks to the second.  time.monotonic() is *)
(* the variable now; _last_tick and _accum are held in ticks, so that      *)
(* int(_accum) is the truncating division of accum by Res.                 *)
(***************************************************************************)
EXTENDS Integers, Sequences, FiniteSets, TLC

\* ---------------------------------------------------------------- bounds
\* ticks per second of the modelled clock
Res == 2
\* the clock stops advancing after this many seconds
MaxSeconds == 16

MaxNow == MaxSeconds * Res
\* how many ticks before _last_tick a timestamp handed to update may lie
MaxBack == 2
\* the longest part, in ticks, of an elapsed time delivered in parts
MaxSplit == 3

\* the most negative duration handed to FrameController is -MaxNegative
MaxNegative == 2

\* no more than this many events are ever posted to the pygame queue
MaxEvents == 4
\* in the specifications of the event loop the clock stops after this many seconds
MaxUiSeconds == 1

MaxUiNow == MaxUiSeconds * Res
\* SpecRun: the longest time between two update() calls of run(), in seconds
MaxLag == 2

\* frame durations handed to load_frame_paused; 330 is the "5:30" option
Durations == {0, 3, 302, 330}

\* ------------------------------------------------------- program constants
FINAL_PHASE_SECONDS == 5 * 60
SHOT_CLOCK_NORMAL_SECONDS == 15
SHOT_CLOCK_FINAL_SECONDS == 10

\* the fob emits KEY_VOLUMEUP
FOB_KEY_CODE == 115

\* self.frame = None
NoFrame == [none |-> TRUE]
\* no evdev event read yet
NoEvent == [type |-> "none", code |-> 0, value |-> 0]
\* the value shot_changed returns when nothing changed (None); a pair is <<prev, cur>>
None == <<>>

VARIABLES
    state,                 \* SpeedSnookerUI.state: "MENU" or "FRAME"
    frame,                 \* SpeedSnookerUI.frame: NoFrame or a FrameController
    now,                   \* time.monotonic(), in ticks
    changed,               \* run(): the value of the last shot_changed() call
    sound,                 \* run(): the beep the last shot_changed() call led to
    frame_total_seconds,   \* the argument the live FrameController was built with
    last_call,             \* the last operation called
    beeps,                 \* SpecLoop: the beeps run() played since the last toggle_run,
                           \* each as the shot value it was played for (0: the long beep)
    run_ticks,             \* SpecClock: the ticks the clock moved while running was true
    selected_index,        \* SpeedSnookerUI.selected_index
    queue,                 \* the pygame event queue
    batch,                 \* run(): the events pygame.event.get() returned, not yet handled
    main_pc,               \* run(): where the main loop stands
    worker_pc,             \* the fob listener thread: where worker() stands
    device,                \* a fob input device is present
    posted,                \* the number of events posted to the queue so far
    handled,               \* the number of events handle_event has been called with
    last_event,            \* the last evdev event the worker took from read_loop()
    dropped,               \* how the controller that handle_event last dropped
                           \* (back_to_menu) stood: "paused", "running" or "expired"
    run_log                \* SpecRun: when and with what clocks the last run started,
                           \* how it ended, and whether every run of the frame so far
                           \* was stopped by hand within a second of its start

\* the event queue, the two threads and the fob device
queuevars == <<queue, batch, main_pc, worker_pc, device, posted, handled, last_event,
               dropped>>

\* run_log before any run
NoRun == [started_at |-> 0, frame_at_start |-> 0, shot_at_start |-> 0,
          short_runs |-> TRUE, ended_by |-> "none"]

vars == <<state, frame, now, changed, sound, frame_total_seconds, last_call,
          beeps, run_ticks, selected_index, queuevars, run_log>>

Max(a, b) == IF a >= b THEN a ELSE b

\* int(x) of a float held in ticks: truncation toward zero, in whole seconds
IntPart(a) == IF a >= 0 THEN a \div Res ELSE -((-a) \div Res)

\* ------------------------------------------------------- FrameController
\* variant: the shot clock is preloaded at construction
FrameController_preloaded(seconds, t) ==
    [frame_remaining      |-> seconds,
     shot_remaining       |-> SHOT_CLOCK_NORMAL_SECONDS,
     running              |-> FALSE,
     last_tick            |-> t,
     accum                |-> 0,
     prev_shot_remaining  |-> 0]

FrameController(seconds, t) ==
    [frame_remaining      |-> seconds,
     shot_remaining       |-> 0,
     running              |-> FALSE,
     last_tick            |-> t,
     accum                |-> 0,
     prev_shot_remaining  |-> 0]

\* variant: the final phase starts below, not at, FINAL_PHASE_SECONDS
current_shot_length_strict(f) ==
    IF f.frame_remaining < FINAL_PHASE_SECONDS
    THEN SHOT_CLOCK_FINAL_SECONDS
    ELSE SHOT_CLOCK_NORMAL_SECONDS

current_shot_length(f) ==
    IF f.frame_remaining <= FINAL_PHASE_SECONDS
    THEN SHOT_CLOCK_FINAL_SECONDS
    ELSE SHOT_CLOCK_NORMAL_SECONDS

\* variant: a manual stop pauses the shot clock instead of clearing it
toggle_run_pause_keeps_shot(f, t) ==
    IF f.frame_remaining <= 0
    THEN [f EXCEPT !.running = FALSE,
                   !.shot_remaining = 0,
                   !.accum = 0,
                   !.prev_shot_remaining = 0]
    ELSE IF f.running
    THEN [f EXCEPT !.running = FALSE,
                   !.accum = 0,
                   !.prev_shot_remaining = f.shot_remaining]
    ELSE [f EXCEPT !.running = TRUE,
                   !.shot_remaining = current_shot_length(f),
                   !.prev_shot_remaining = current_shot_length(f),
                   !.last_tick = t,
                   !.accum = 0]

\* variant: no refusal branch for an expired frame
toggle_run_no_refusal(f, t) ==
    IF f.running
    THEN [f EXCEPT !.running = FALSE,
                   !.shot_remaining = 0,
                   !.accum = 0,
                   !.prev_shot_remaining = 0]
    ELSE [f EXCEPT !.running = TRUE,
                   !.shot_remaining = current_shot_length(f),
                   !.prev_shot_remaining = current_shot_length(f),
                   !.last_tick = t,
                   !.accum = 0]

\* variant: a manual stop leaves _prev_shot_remaining as it was
toggle_run_stop_keeps_prev(f, t) ==
    IF f.frame_remaining <= 0
    THEN [f EXCEPT !.running = FALSE,
                   !.shot_remaining = 0,
                   !.accum = 0,
                   !.prev_shot_remaining = 0]
    ELSE IF f.running
    THEN [f EXCEPT !.running = FALSE,
                   !.shot_remaining = 0,
                   !.accum = 0]
    ELSE [f EXCEPT !.running = TRUE,
                   !.shot_remaining = current_shot_length(f),
                   !.prev_shot_remaining = current_shot_length(f),
                   !.last_tick = t,
                   !.accum = 0]

\* variant: a start does not move _last_tick
toggle_run_keeps_last_tick(f, t) ==
    IF f.frame_remaining <= 0
    THEN [f EXCEPT !.running = FALSE,
                   !.shot_remaining = 0,
                   !.accum = 0,
                   !.prev_shot_remaining = 0]
    ELSE IF f.running
    THEN [f EXCEPT !.running = FALSE,
                   !.shot_remaining = 0,
                   !.accum = 0,
                   !.prev_shot_remaining = 0]
    ELSE [f EXCEPT !.running = TRUE,
                   !.shot_remaining = current_shot_length(f),
                   !.prev_shot_remaining = current_shot_length(f),
                   !.accum = 0]

\* variant: a manual stop charges the second that had begun
toggle_run_stop_charges(f, t) ==
    IF f.frame_remaining <= 0
    THEN [f EXCEPT !.running = FALSE,
                   !.shot_remaining = 0,
                   !.accum = 0,
                   !.prev_shot_remaining = 0]
    ELSE IF f.running
    THEN [f EXCEPT !.running = FALSE,
                   !.frame_remaining = Max(0, f.frame_remaining - 1),
                   !.shot_remaining = 0,
                   !.accum = 0,
                   !.prev_shot_remaining = 0]
    ELSE [f EXCEPT !.running = TRUE,
                   !.shot_remaining = current_shot_length(f),
                   !.prev_shot_remaining = current_shot_length(f),
                   !.last_tick = t,
                   !.accum = 0]

\* variant: a start loads the shot clock without storing it as reported
toggle_run_start_keeps_prev(f, t) ==
    IF f.frame_remaining <= 0
    THEN [f EXCEPT !.running = FALSE,
                   !.shot_remaining = 0,
                   !.accum = 0,
                   !.prev_shot_remaining = 0]
    ELSE IF f.running
    THEN [f EXCEPT !.running = FALSE,
                   !.shot_remaining = 0,
                   !.accum = 0,
                   !.prev_shot_remaining = 0]
    ELSE [f EXCEPT !.running = TRUE,
                   !.shot_remaining = current_shot_length(f),
                   !.last_tick = t,
                   !.accum = 0]

\* variant: the fraction of a second is kept over a stop and a start
toggle_run_carries_fraction(f, t) ==
    IF f.frame_remaining <= 0
    THEN [f EXCEPT !.running = FALSE,
                   !.shot_remaining = 0,
                   !.accum = 0,
                   !.prev_shot_remaining = 0]
    ELSE IF f.running
    THEN [f EXCEPT !.running = FALSE,
                   !.shot_remaining = 0,
                   !.prev_shot_remaining = 0]
    ELSE [f EXCEPT !.running = TRUE,
                   !.shot_remaining = current_shot_length(f),
                   !.prev_shot_remaining = current_shot_length(f),
                   !.last_tick = t]

toggle_run(f, t) ==
    IF f.frame_remaining <= 0
    THEN [f EXCEPT !.running = FALSE,
                   !.shot_remaining = 0,
                   !.accum = 0,
                   !.prev_shot_remaining = 0]
    ELSE IF f.running
    THEN [f EXCEPT !.running = FALSE,
                   !.shot_remaining = 0,
                   !.accum = 0,
                   !.prev_shot_remaining = 0]
    ELSE [f EXCEPT !.running = TRUE,
                   !.shot_remaining = current_shot_length(f),
                   !.prev_shot_remaining = current_shot_length(f),
                   !.last_tick = t,
                   !.accum = 0]

\* the whole seconds update takes off both clocks at time t (0 when it returns early)
Dec(f, t) ==
    IF f.running THEN Max(0, IntPart(f.accum + (t - f.last_tick))) ELSE 0

\* variant: only an expired shot stops the run
update_stop_on_shot_only(f, t) ==
    LET dt   == t - f.last_tick
        g    == [f EXCEPT !.last_tick = t]
        acc  == f.accum + dt
        dec  == IntPart(acc)
        fr   == Max(0, f.frame_remaining - dec)
        sr0  == Max(0, f.shot_remaining - dec)
        sr   == IF fr <= FINAL_PHASE_SECONDS /\ sr0 > SHOT_CLOCK_FINAL_SECONDS
                THEN SHOT_CLOCK_FINAL_SECONDS
                ELSE sr0
        stop == sr = 0
    IN  IF ~f.running THEN g
        ELSE IF dec <= 0 THEN [g EXCEPT !.accum = acc]
        ELSE [g EXCEPT !.accum = IF stop THEN 0 ELSE acc - dec * Res,
                       !.frame_remaining = fr,
                       !.shot_remaining = sr,
                       !.running = IF stop THEN FALSE ELSE f.running]

\* variant: no final-phase clamp
update_no_clamp(f, t) ==
    LET dt   == t - f.last_tick
        g    == [f EXCEPT !.last_tick = t]
        acc  == f.accum + dt
        dec  == IntPart(acc)
        fr   == Max(0, f.frame_remaining - dec)
        sr0  == Max(0, f.shot_remaining - dec)
        sr   == sr0
        stop == fr = 0 \/ sr = 0
    IN  IF ~f.running THEN g
        ELSE IF dec <= 0 THEN [g EXCEPT !.accum = acc]
        ELSE [g EXCEPT !.accum = IF stop THEN 0 ELSE acc - dec * Res,
                       !.frame_remaining = fr,
                       !.shot_remaining = sr,
                       !.running = IF stop THEN FALSE ELSE f.running]

\* variant: the shot clock loses one second per call, whatever dec is
update_uncoupled(f, t) ==
    LET dt   == t - f.last_tick
        g    == [f EXCEPT !.last_tick = t]
        acc  == f.accum + dt
        dec  == IntPart(acc)
        fr   == Max(0, f.frame_remaining - dec)
        sr0  == Max(0, f.shot_remaining - 1)
        sr   == IF fr <= FINAL_PHASE_SECONDS /\ sr0 > SHOT_CLOCK_FINAL_SECONDS
                THEN SHOT_CLOCK_FINAL_SECONDS
                ELSE sr0
        stop == fr = 0 \/ sr = 0
    IN  IF ~f.running THEN g
        ELSE IF dec <= 0 THEN [g EXCEPT !.accum = acc]
        ELSE [g EXCEPT !.accum = IF stop THEN 0 ELSE acc - dec * Res,
                       !.frame_remaining = fr,
                       !.shot_remaining = sr,
                       !.running = IF stop THEN FALSE ELSE f.running]

\* variant: an auto-stop clears _prev_shot_remaining as a manual stop does
update_stop_clears_prev(f, t) ==
    LET dt   == t - f.last_tick
        g    == [f EXCEPT !.last_tick = t]
        acc  == f.accum + dt
        dec  == IntPart(acc)
        fr   == Max(0, f.frame_remaining - dec)
        sr0  == Max(0, f.shot_remaining - dec)
        sr   == IF fr <= FINAL_PHASE_SECONDS /\ sr0 > SHOT_CLOCK_FINAL_SECONDS
                THEN SHOT_CLOCK_FINAL_SECONDS
                ELSE sr0
        stop == fr = 0 \/ sr = 0
    IN  IF ~f.running THEN g
        ELSE IF dec <= 0 THEN [g EXCEPT !.accum = acc]
        ELSE [g EXCEPT !.accum = IF stop THEN 0 ELSE acc - dec * Res,
                       !.frame_remaining = fr,
                       !.shot_remaining = sr,
                       !.running = IF stop THEN FALSE ELSE f.running,
                       !.prev_shot_remaining = IF stop THEN 0 ELSE f.prev_shot_remaining]

\* variant: _last_tick is not moved to the timestamp of the call
update_keeps_last_tick(f, t) ==
    LET dt   == t - f.last_tick
        g    == f
        acc  == f.accum + dt
        dec  == IntPart(acc)
        fr   == Max(0, f.frame_remaining - dec)
        sr0  == Max(0, f.shot_remaining - dec)
        sr   == IF fr <= FINAL_PHASE_SECONDS /\ sr0 > SHOT_CLOCK_FINAL_SECONDS
                THEN SHOT_CLOCK_FINAL_SECONDS
                ELSE sr0
        stop == fr = 0 \/ sr = 0
    IN  IF ~f.running THEN g
        ELSE IF dec <= 0 THEN [g EXCEPT !.accum = acc]
        ELSE [g EXCEPT !.accum = IF stop THEN 0 ELSE acc - dec * Res,
                       !.frame_remaining = fr,
                       !.shot_remaining = sr,
                       !.running = IF stop THEN FALSE ELSE f.running]

\* variant: the frame clock is charged no more than the shot time left
update_frame_stops_with_shot(f, t) ==
    LET dt   == t - f.last_tick
        g    == [f EXCEPT !.last_tick = t]
        acc  == f.accum + dt
        dec  == IntPart(acc)
        fr   == Max(0, f.frame_remaining - (IF dec > f.shot_remaining THEN f.shot_remaining ELSE dec))
        sr0  == Max(0, f.shot_remaining - dec)
        sr   == IF fr <= FINAL_PHASE_SECONDS /\ sr0 > SHOT_CLOCK_FINAL_SECONDS
                THEN SHOT_CLOCK_FINAL_SECONDS
                ELSE sr0
        stop == fr = 0 \/ sr = 0
    IN  IF ~f.running THEN g
        ELSE IF dec <= 0 THEN [g EXCEPT !.accum = acc]
        ELSE [g EXCEPT !.accum = IF stop THEN 0 ELSE acc - dec * Res,
                       !.frame_remaining = fr,
                       !.shot_remaining = sr,
                       !.running = IF stop THEN FALSE ELSE f.running]

\* variant: in the final phase a live shot is always set to the final length
update_clamp_always(f, t) ==
    LET dt   == t - f.last_tick
        g    == [f EXCEPT !.last_tick = t]
        acc  == f.accum + dt
        dec  == IntPart(acc)
        fr   == Max(0, f.frame_remaining - dec)
        sr0  == Max(0, f.shot_remaining - dec)
        sr   == IF fr <= FINAL_PHASE_SECONDS /\ sr0 > 0
                THEN SHOT_CLOCK_FINAL_SECONDS
                ELSE sr0
        stop == fr = 0 \/ sr = 0
    IN  IF ~f.running THEN g
        ELSE IF dec <= 0 THEN [g EXCEPT !.accum = acc]
        ELSE [g EXCEPT !.accum = IF stop THEN 0 ELSE acc - dec * Res,
                       !.frame_remaining = fr,
                       !.shot_remaining = sr,
                       !.running = IF stop THEN FALSE ELSE f.running]

\* variant: an auto-stop keeps the fraction accumulated
update_stop_keeps_accum(f, t) ==
    LET dt   == t - f.last_tick
        g    == [f EXCEPT !.last_tick = t]
        acc  == f.accum + dt
        dec  == IntPart(acc)
        fr   == Max(0, f.frame_remaining - dec)
        sr0  == Max(0, f.shot_remaining - dec)
        sr   == IF fr <= FINAL_PHASE_SECONDS /\ sr0 > SHOT_CLOCK_FINAL_SECONDS
                THEN SHOT_CLOCK_FINAL_SECONDS
                ELSE sr0
        stop == fr = 0 \/ sr = 0
    IN  IF ~f.running THEN g
        ELSE IF dec <= 0 THEN [g EXCEPT !.accum = acc]
        ELSE [g EXCEPT !.accum = acc - dec * Res,
                       !.frame_remaining = fr,
                       !.shot_remaining = sr,
                       !.running = IF stop THEN FALSE ELSE f.running]

\* variant: the frame clock is not floored at 0
update_no_floor(f, t) ==
    LET dt   == t - f.last_tick
        g    == [f EXCEPT !.last_tick = t]
        acc  == f.accum + dt
        dec  == IntPart(acc)
        fr   == f.frame_remaining - dec
        sr0  == Max(0, f.shot_remaining - dec)
        sr   == IF fr <= FINAL_PHASE_SECONDS /\ sr0 > SHOT_CLOCK_FINAL_SECONDS
                THEN SHOT_CLOCK_FINAL_SECONDS
                ELSE sr0
        stop == fr <= 0 \/ sr = 0
    IN  IF ~f.running THEN g
        ELSE IF dec <= 0 THEN [g EXCEPT !.accum = acc]
        ELSE [g EXCEPT !.accum = IF stop THEN 0 ELSE acc - dec * Res,
                       !.frame_remaining = fr,
                       !.shot_remaining = sr,
                       !.running = IF stop THEN FALSE ELSE f.running]

\* variant: the accumulator is cleared after every decrement
update_drops_fraction(f, t) ==
    LET dt   == t - f.last_tick
        g    == [f EXCEPT !.last_tick = t]
        acc  == f.accum + dt
        dec  == IntPart(acc)
        fr   == Max(0, f.frame_remaining - dec)
        sr0  == Max(0, f.shot_remaining - dec)
        sr   == IF fr <= FINAL_PHASE_SECONDS /\ sr0 > SHOT_CLOCK_FINAL_SECONDS
                THEN SHOT_CLOCK_FINAL_SECONDS
                ELSE sr0
        stop == fr = 0 \/ sr = 0
    IN  IF ~f.running THEN g
        ELSE IF dec <= 0 THEN [g EXCEPT !.accum = acc]
        ELSE [g EXCEPT !.accum = 0,
                       !.frame_remaining = fr,
                       !.shot_remaining = sr,
                       !.running = IF stop THEN FALSE ELSE f.running]

\* variant: an auto-stop reloads the shot clock for the next shot
update_stop_reloads_shot(f, t) ==
    LET dt   == t - f.last_tick
        g    == [f EXCEPT !.last_tick = t]
        acc  == f.accum + dt
        dec  == IntPart(acc)
        fr   == Max(0, f.frame_remaining - dec)
        sr0  == Max(0, f.shot_remaining - dec)
        sr   == IF fr <= FINAL_PHASE_SECONDS /\ sr0 > SHOT_CLOCK_FINAL_SECONDS
                THEN SHOT_CLOCK_FINAL_SECONDS
                ELSE sr0
        stop == fr = 0 \/ sr = 0
    IN  IF ~f.running THEN g
        ELSE IF dec <= 0 THEN [g EXCEPT !.accum = acc]
        ELSE [g EXCEPT !.accum = IF stop THEN 0 ELSE acc - dec * Res,
                       !.frame_remaining = fr,
                       !.shot_remaining = IF stop THEN current_shot_length(f) ELSE sr,
                       !.running = IF stop THEN FALSE ELSE f.running]

\* variant: the early return for a paused controller is missing
update_ignores_running(f, t) ==
    LET dt   == t - f.last_tick
        g    == [f EXCEPT !.last_tick = t]
        acc  == f.accum + dt
        dec  == IntPart(acc)
        fr   == Max(0, f.frame_remaining - dec)
        sr0  == Max(0, f.shot_remaining - dec)
        sr   == IF fr <= FINAL_PHASE_SECONDS /\ sr0 > SHOT_CLOCK_FINAL_SECONDS
                THEN SHOT_CLOCK_FINAL_SECONDS
                ELSE sr0
        stop == fr = 0 \/ sr = 0
    IN  IF dec <= 0 THEN [g EXCEPT !.accum = acc]
        ELSE [g EXCEPT !.accum = IF stop THEN 0 ELSE acc - dec * Res,
                       !.frame_remaining = fr,
                       !.shot_remaining = sr,
                       !.running = IF stop THEN FALSE ELSE f.running]

update(f, t) ==
    LET dt   == t - f.last_tick
        g    == [f EXCEPT !.last_tick = t]
        acc  == f.accum + dt
        dec  == IntPart(acc)
        fr   == Max(0, f.frame_remaining - dec)
        sr0  == Max(0, f.shot_remaining - dec)
        sr   == IF fr <= FINAL_PHASE_SECONDS /\ sr0 > SHOT_CLOCK_FINAL_SECONDS
                THEN SHOT_CLOCK_FINAL_SECONDS
                ELSE sr0
        stop == fr = 0 \/ sr = 0
    IN  IF ~f.running THEN g
        ELSE IF dec <= 0 THEN [g EXCEPT !.accum = acc]
        ELSE [g EXCEPT !.accum = IF stop THEN 0 ELSE acc - dec * Res,
                       !.frame_remaining = fr,
                       !.shot_remaining = sr,
                       !.running = IF stop THEN FALSE ELSE f.running]

\* variant: the value reported is not stored as the previous one
shot_changed_no_store(f) ==
    LET cur  == f.shot_remaining
        prev == f.prev_shot_remaining
    IN  IF cur # prev
        THEN [frame |-> f, result |-> <<prev, cur>>]
        ELSE [frame |-> f, result |-> None]

\* shot_changed: the controller after the call, and the value returned
shot_changed(f) ==
    LET cur  == f.shot_remaining
        prev == f.prev_shot_remaining
    IN  IF cur # prev
        THEN [frame |-> [f EXCEPT !.prev_shot_remaining = cur], result |-> <<prev, cur>>]
        ELSE [frame |-> f, result |-> None]

\* variant: the short beep starts below 5
Beep_below_five(c) ==
    IF c = None THEN "none"
    ELSE IF 1 <= c[2] /\ c[2] < 5 THEN "short"
    ELSE IF c[2] = 0 /\ c[1] > 0 THEN "long"
    ELSE "none"

\* run(): the beep chosen for the value shot_changed returned
Beep(c) ==
    IF c = None THEN "none"
    ELSE IF 1 <= c[2] /\ c[2] <= 5 THEN "short"
    ELSE IF c[2] = 0 /\ c[1] > 0 THEN "long"
    ELSE "none"

\* ----------------------------------------------------------------- actions
\* changed and sound are locals of one iteration of run(): they hold the value
\* of the last shot_changed call while that call is the last one made, and are
\* cleared by the next call.
Init ==
    /\ state = "MENU"
    /\ frame = NoFrame
    /\ now = 0
    /\ changed = None
    /\ sound = "none"
    /\ frame_total_seconds = 0
    /\ last_call = "init"
    /\ beeps = <<>>
    /\ run_ticks = 0
    /\ selected_index = 0
    /\ queue = <<>>
    /\ batch = <<>>
    /\ main_pc = "get"
    /\ worker_pc = "find"
    /\ device = FALSE
    /\ posted = 0
    /\ handled = 0
    /\ last_event = NoEvent
    /\ dropped = "none"
    /\ run_log = NoRun

\* The monotonic clock moves on by one tick.  Only a live controller reads the
\* clock, and it uses only differences of readings (now - last_tick), so the
\* clock is let run only while a controller is live.
Advance ==
    /\ now < MaxNow
    /\ frame # NoFrame
    /\ now' = now + 1
    /\ UNCHANGED <<state, frame, changed, sound, frame_total_seconds, last_call>>
    /\ UNCHANGED <<beeps, run_ticks>>
    /\ UNCHANGED <<selected_index, queuevars>>
    /\ UNCHANGED run_log

\* MENU, Enter: load_frame_paused(seconds)
LoadFramePaused(seconds) ==
    /\ state = "MENU"
    /\ frame' = FrameController(seconds, now)
    /\ state' = "FRAME"
    /\ frame_total_seconds' = seconds
    /\ last_call' = "create"
    /\ changed' = None /\ sound' = "none"
    /\ beeps' = <<>> /\ run_ticks' = 0
    /\ UNCHANGED now
    /\ UNCHANGED <<selected_index, queuevars>>
    /\ UNCHANGED run_log

\* FRAME, Backspace/Delete: back_to_menu()
BackToMenu ==
    /\ state = "FRAME"
    /\ state' = "MENU"
    /\ frame' = NoFrame
    /\ frame_total_seconds' = 0
    /\ last_call' = "back_to_menu"
    /\ changed' = None /\ sound' = "none"
    /\ beeps' = <<>> /\ run_ticks' = 0
    /\ UNCHANGED now
    /\ selected_index' = 0 /\ UNCHANGED queuevars
    /\ UNCHANGED run_log

\* FRAME, Enter or fob: self.frame.toggle_run()
ToggleRun ==
    /\ state = "FRAME"
    /\ frame # NoFrame
    /\ frame' = toggle_run(frame, now)
    /\ last_call' = "toggle_run"
    /\ changed' = None /\ sound' = "none"
    /\ beeps' = <<>>
    /\ UNCHANGED <<state, now, frame_total_seconds, run_ticks>>
    /\ UNCHANGED <<selected_index, queuevars>>
    /\ UNCHANGED run_log

\* run(): self.frame.update()
Update ==
    /\ state = "FRAME"
    /\ frame # NoFrame
    /\ frame' = update(frame, now)
    /\ last_call' = "update"
    /\ changed' = None /\ sound' = "none"
    /\ UNCHANGED <<state, now, frame_total_seconds, beeps, run_ticks>>
    /\ UNCHANGED <<selected_index, queuevars>>
    /\ UNCHANGED run_log

\* run(): changed = self.frame.shot_changed(), and the beep it leads to
ShotChanged ==
    /\ state = "FRAME"
    /\ frame # NoFrame
    /\ frame' = shot_changed(frame).frame
    /\ changed' = shot_changed(frame).result
    /\ sound' = Beep(shot_changed(frame).result)
    /\ last_call' = "shot_changed"
    /\ UNCHANGED <<state, now, frame_total_seconds, beeps, run_ticks>>
    /\ UNCHANGED <<selected_index, queuevars>>
    /\ UNCHANGED run_log

Next ==
    \/ Advance
    \/ \E seconds \in Durations : LoadFramePaused(seconds)
    \/ BackToMenu
    \/ ToggleRun
    \/ Update
    \/ ShotChanged

Spec == Init /\ [][Next]_vars

\* ------------------------------------------------ the main loop, as run() calls
\* One iteration of run() on the FRAME screen, d ticks (less than a second)
\* after the last one: update(), shot_changed(), and the beep played.
RunIteration(d) ==
    /\ state = "FRAME"
    /\ frame # NoFrame
    /\ now + d <= MaxNow
    /\ now' = now + d
    /\ LET polled == shot_changed(update(frame, now + d))
       IN  /\ frame' = polled.frame
           /\ changed' = polled.result
           /\ sound' = Beep(polled.result)
           /\ beeps' = IF Beep(polled.result) = "none"
                       THEN beeps
                       ELSE Append(beeps, polled.result[2])
    /\ last_call' = "shot_changed"
    /\ UNCHANGED <<state, frame_total_seconds, run_ticks>>
    /\ UNCHANGED <<selected_index, queuevars>>
    /\ UNCHANGED run_log

NextLoop ==
    \/ \E seconds \in Durations : LoadFramePaused(seconds)
    \/ BackToMenu
    \/ ToggleRun
    \/ \E d \in 0..(Res - 1) : RunIteration(d)

SpecLoop == Init /\ [][NextLoop]_vars

\* --------------------------------- the two clocks against the time spent running
\* The clock moves on by one tick; the tick is counted when the controller is running.
TimedAdvance ==
    /\ now < MaxNow
    /\ frame # NoFrame
    /\ now' = now + 1
    /\ run_ticks' = IF frame.running THEN run_ticks + 1 ELSE run_ticks
    /\ UNCHANGED <<state, frame, changed, sound, frame_total_seconds, last_call, beeps>>
    /\ UNCHANGED <<selected_index, queuevars>>
    /\ UNCHANGED run_log

NextClock ==
    \/ TimedAdvance
    \/ \E seconds \in Durations : LoadFramePaused(seconds)
    \/ BackToMenu
    \/ ToggleRun
    \/ Update

SpecClock == Init /\ [][NextClock]_vars

\* ------------------------------- the constructor given any integer duration
\* FrameController.__init__ takes any int: the durations of the menu and the
\* negative ones down to -MaxNegative
AnySeconds == Durations \cup ((0 - MaxNegative)..(0 - 1))

NextCreate ==
    \/ \E seconds \in AnySeconds : LoadFramePaused(seconds)
    \/ BackToMenu
    \/ ToggleRun
    \/ \E d \in 0..(Res - 1) : RunIteration(d)

SpecCreate == Init /\ [][NextCreate]_vars

\* ------------------------------------------- SpeedSnookerUI: events and loop
\* the seconds of self.buttons, one per entry of GAME_OPTIONS, longest first as
\* there; "5:30" and three durations short enough to run out within MaxSeconds
Buttons == <<330, 302, 3, 0>>

\* the keys a KEYDOWN event is posted for
Keys == {"K_RETURN", "K_BACKSPACE", "K_UP", "K_DOWN"}

\* event.scancode of a key; the fob seen as a keyboard sends scancode 128
Scancode(k) ==
    CASE k = "K_RETURN"    -> 40
      [] k = "K_BACKSPACE" -> 42
      [] k = "K_UP"        -> 82
      [] k = "K_DOWN"      -> 81
      [] k = "K_VOLUMEUP"  -> 128

\* the evdev events dev.read_loop() yields
EvdevEvents ==
    [type : {"EV_KEY", "EV_SYN"}, code : {FOB_KEY_CODE - 1, FOB_KEY_CODE}, value : 0..2]

\* worker(): the test that lets an evdev event through
IsFobPress(e) == e.type = "EV_KEY" /\ e.code = FOB_KEY_CODE /\ e.value = 1

\* variant: back_to_menu keeps the controller and Enter on the menu resumes it
handle_event_resumes(st, fr, sel, ev, t) ==
    LET same == [state |-> st, frame |-> fr, selected_index |-> sel, call |-> "none"]
    IN  IF ev.type = "FOB_TRIGGER_EVENT"
        THEN IF st = "FRAME" /\ fr # NoFrame
             THEN [same EXCEPT !.frame = toggle_run(fr, t), !.call = "toggle_run"]
             ELSE same
        ELSE IF ev.type # "KEYDOWN" THEN same
        ELSE IF st = "MENU"
        THEN IF ev.key \in {"K_UP", "K_w"}
             THEN [same EXCEPT !.selected_index = (sel - 1) % Len(Buttons)]
             ELSE IF ev.key \in {"K_DOWN", "K_s"}
             THEN [same EXCEPT !.selected_index = (sel + 1) % Len(Buttons)]
             ELSE IF ev.key \in {"K_RETURN", "K_KP_ENTER"}
             THEN [same EXCEPT !.frame = IF fr # NoFrame THEN fr
                                         ELSE FrameController(Buttons[sel + 1], t),
                               !.state = "FRAME",
                               !.call = "create"]
             ELSE same
        ELSE IF st = "FRAME"
        THEN IF ev.key \in {"K_BACKSPACE", "K_DELETE"}
             THEN [state |-> "MENU", frame |-> fr, selected_index |-> 0,
                   call |-> "back_to_menu"]
             ELSE IF ev.key \in {"K_RETURN", "K_KP_ENTER"}
             THEN IF fr # NoFrame
                  THEN [same EXCEPT !.frame = toggle_run(fr, t), !.call = "toggle_run"]
                  ELSE same
             ELSE same
        ELSE same

\* variant: a fob event on the menu is taken as Enter
handle_event_fob_selects(st, fr, sel, ev, t) ==
    LET same == [state |-> st, frame |-> fr, selected_index |-> sel, call |-> "none"]
    IN  IF ev.type = "FOB_TRIGGER_EVENT"
        THEN IF st = "FRAME" /\ fr # NoFrame
             THEN [same EXCEPT !.frame = toggle_run(fr, t), !.call = "toggle_run"]
             ELSE [same EXCEPT !.frame = FrameController(Buttons[sel + 1], t),
                               !.state = "FRAME",
                               !.call = "create"]
        ELSE IF ev.type # "KEYDOWN" THEN same
        ELSE IF st = "MENU"
        THEN IF ev.key \in {"K_UP", "K_w"}
             THEN [same EXCEPT !.selected_index = (sel - 1) % Len(Buttons)]
             ELSE IF ev.key \in {"K_DOWN", "K_s"}
             THEN [same EXCEPT !.selected_index = (sel + 1) % Len(Buttons)]
             ELSE IF ev.key \in {"K_RETURN", "K_KP_ENTER"}
             THEN [same EXCEPT !.frame = FrameController(Buttons[sel + 1], t),
                               !.state = "FRAME",
                               !.call = "create"]
             ELSE same
        ELSE IF st = "FRAME"
        THEN IF ev.key \in {"K_BACKSPACE", "K_DELETE"}
             THEN [state |-> "MENU", frame |-> NoFrame, selected_index |-> 0,
                   call |-> "back_to_menu"]
             ELSE IF ev.key \in {"K_RETURN", "K_KP_ENTER"}
             THEN IF fr # NoFrame
                  THEN [same EXCEPT !.frame = toggle_run(fr, t), !.call = "toggle_run"]
                  ELSE same
             ELSE same
        ELSE same

\* variant: the selection stops at the first and the last button
handle_event_no_wrap(st, fr, sel, ev, t) ==
    LET same == [state |-> st, frame |-> fr, selected_index |-> sel, call |-> "none"]
    IN  IF ev.type = "FOB_TRIGGER_EVENT"
        THEN IF st = "FRAME" /\ fr # NoFrame
             THEN [same EXCEPT !.frame = toggle_run(fr, t), !.call = "toggle_run"]
             ELSE same
        ELSE IF ev.type # "KEYDOWN" THEN same
        ELSE IF st = "MENU"
        THEN IF ev.key \in {"K_UP", "K_w"}
             THEN [same EXCEPT !.selected_index = Max(0, sel - 1)]
             ELSE IF ev.key \in {"K_DOWN", "K_s"}
             THEN [same EXCEPT !.selected_index =
                                   IF sel + 1 < Len(Buttons) THEN sel + 1 ELSE sel]
             ELSE IF ev.key \in {"K_RETURN", "K_KP_ENTER"}
             THEN [same EXCEPT !.frame = FrameController(Buttons[sel + 1], t),
                               !.state = "FRAME",
                               !.call = "create"]
             ELSE same
        ELSE IF st = "FRAME"
        THEN IF ev.key \in {"K_BACKSPACE", "K_DELETE"}
             THEN [state |-> "MENU", frame |-> NoFrame, selected_index |-> 0,
                   call |-> "back_to_menu"]
             ELSE IF ev.key \in {"K_RETURN", "K_KP_ENTER"}
             THEN IF fr # NoFrame
                  THEN [same EXCEPT !.frame = toggle_run(fr, t), !.call = "toggle_run"]
                  ELSE same
             ELSE same
        ELSE same

\* handle_event of pi_test_2: the UI fields after the call, and the call made
\* on the controller
handle_event(st, fr, sel, ev, t) ==
    LET same == [state |-> st, frame |-> fr, selected_index |-> sel, call |-> "none"]
    IN  IF ev.type = "FOB_TRIGGER_EVENT"
        THEN IF st = "FRAME" /\ fr # NoFrame
             THEN [same EXCEPT !.frame = toggle_run(fr, t), !.call = "toggle_run"]
             ELSE same
        ELSE IF ev.type # "KEYDOWN" THEN same
        ELSE IF st = "MENU"
        THEN IF ev.key \in {"K_UP", "K_w"}
             THEN [same EXCEPT !.selected_index = (sel - 1) % Len(Buttons)]
             ELSE IF ev.key \in {"K_DOWN", "K_s"}
             THEN [same EXCEPT !.selected_index = (sel + 1) % Len(Buttons)]
             ELSE IF ev.key \in {"K_RETURN", "K_KP_ENTER"}
             THEN [same EXCEPT !.frame = FrameController(Buttons[sel + 1], t),
                               !.state = "FRAME",
                               !.call = "create"]
             ELSE same
        ELSE IF st = "FRAME"
        THEN IF ev.key \in {"K_BACKSPACE", "K_DELETE"}
             THEN [state |-> "MENU", frame |-> NoFrame, selected_index |-> 0,
                   call |-> "back_to_menu"]
             ELSE IF ev.key \in {"K_RETURN", "K_KP_ENTER"}
             THEN IF fr # NoFrame
                  THEN [same EXCEPT !.frame = toggle_run(fr, t), !.call = "toggle_run"]
                  ELSE same
             ELSE same
        ELSE same

\* variant: back_to_menu of ALPHA_TEST drops the controller and stays on FRAME
handle_event_alpha_keeps_screen(st, fr, sel, ev, t) ==
    LET same == [state |-> st, frame |-> fr, selected_index |-> sel, call |-> "none"]
    IN  IF ev.type # "KEYDOWN" THEN same
        ELSE IF st = "MENU"
        THEN IF ev.key \in {"K_UP", "K_w"}
             THEN [same EXCEPT !.selected_index = (sel - 1) % Len(Buttons)]
             ELSE IF ev.key \in {"K_DOWN", "K_s"}
             THEN [same EXCEPT !.selected_index = (sel + 1) % Len(Buttons)]
             ELSE IF ev.key \in {"K_RETURN", "K_KP_ENTER"}
             THEN [same EXCEPT !.frame = FrameController(Buttons[sel + 1], t),
                               !.state = "FRAME",
                               !.call = "create"]
             ELSE same
        ELSE IF st = "FRAME"
        THEN IF ev.key \in {"K_BACKSPACE", "K_DELETE"}
             THEN [state |-> "FRAME", frame |-> NoFrame, selected_index |-> 0,
                   call |-> "back_to_menu"]
             ELSE IF ev.scancode = 128
             THEN IF fr # NoFrame
                  THEN [same EXCEPT !.frame = toggle_run(fr, t), !.call = "toggle_run"]
                  ELSE [same EXCEPT !.call = "AttributeError"]
             ELSE same
        ELSE same

\* handle_event of ALPHA_TEST: no fob event; on FRAME the key with scancode
\* 128 toggles, with no test of self.frame
handle_event_alpha(st, fr, sel, ev, t) ==
    LET same == [state |-> st, frame |-> fr, selected_index |-> sel, call |-> "none"]
    IN  IF ev.type # "KEYDOWN" THEN same
        ELSE IF st = "MENU"
        THEN IF ev.key \in {"K_UP", "K_w"}
             THEN [same EXCEPT !.selected_index = (sel - 1) % Len(Buttons)]
             ELSE IF ev.key \in {"K_DOWN", "K_s"}
             THEN [same EXCEPT !.selected_index = (sel + 1) % Len(Buttons)]
             ELSE IF ev.key \in {"K_RETURN", "K_KP_ENTER"}
             THEN [same EXCEPT !.frame = FrameController(Buttons[sel + 1], t),
                               !.state = "FRAME",
                               !.call = "create"]
             ELSE same
        ELSE IF st = "FRAME"
        THEN IF ev.key \in {"K_BACKSPACE", "K_DELETE"}
             THEN [state |-> "MENU", frame |-> NoFrame, selected_index |-> 0,
                   call |-> "back_to_menu"]
             ELSE IF ev.scancode = 128
             THEN IF fr # NoFrame
                  THEN [same EXCEPT !.frame = toggle_run(fr, t), !.call = "toggle_run"]
                  ELSE [same EXCEPT !.call = "AttributeError"]
             ELSE same
        ELSE same

\* the UI after handle_event returned r for the first event of the batch
EventHandled(r) ==
    /\ state' = r.state
    /\ frame' = r.frame
    /\ selected_index' = r.selected_index
    /\ frame_total_seconds' = IF r.call = "create" THEN r.frame.frame_remaining
                              ELSE IF r.call = "back_to_menu" THEN 0
                              ELSE frame_total_seconds
    /\ last_call' = IF r.call = "none" THEN last_call ELSE r.call
    /\ changed' = IF r.call = "none" THEN changed ELSE None
    /\ sound' = IF r.call = "none" THEN sound ELSE "none"
    /\ beeps' = IF r.call = "none" THEN beeps ELSE <<>>
    /\ run_ticks' = IF r.call \in {"create", "back_to_menu"} THEN 0 ELSE run_ticks
    /\ batch' = Tail(batch)
    /\ handled' = handled + 1
    /\ dropped' = IF r.call # "back_to_menu" \/ frame = NoFrame THEN dropped
                  ELSE IF frame.running THEN "running"
                  ELSE IF frame.frame_remaining <= 0 THEN "expired"
                  ELSE "paused"
    /\ UNCHANGED <<now, queue, main_pc, worker_pc, device, posted, last_event>>
    /\ UNCHANGED run_log

\* the keyboard: pygame puts a KEYDOWN event on the queue
KeyPress(k) ==
    /\ posted < MaxEvents
    /\ queue' = Append(queue, [type |-> "KEYDOWN", key |-> k,
                               scancode |-> Scancode(k), n |-> posted + 1])
    /\ posted' = posted + 1
    /\ UNCHANGED <<state, frame, now, changed, sound, frame_total_seconds, last_call,
                   beeps, run_ticks, selected_index>>
    /\ UNCHANGED <<batch, main_pc, worker_pc, device, handled, last_event, dropped>>
    /\ UNCHANGED run_log

\* run(): for event in pygame.event.get() takes every queued event
GetEvents ==
    /\ main_pc = "get"
    /\ batch' = queue
    /\ queue' = <<>>
    /\ main_pc' = "handle"
    /\ UNCHANGED <<state, frame, now, changed, sound, frame_total_seconds, last_call,
                   beeps, run_ticks, selected_index>>
    /\ UNCHANGED <<worker_pc, device, posted, handled, last_event, dropped>>
    /\ UNCHANGED run_log

\* run(): self.handle_event(event), for the next event of the batch
HandleEvent ==
    /\ main_pc = "handle"
    /\ batch # <<>>
    /\ EventHandled(handle_event(state, frame, selected_index, Head(batch), now))

\* the same step of ALPHA_TEST
HandleEventAlpha ==
    /\ main_pc = "handle"
    /\ batch # <<>>
    /\ EventHandled(handle_event_alpha(state, frame, selected_index, Head(batch), now))

\* run(): the events are handled, and on FRAME self.frame.update() is called
MainUpdate ==
    /\ main_pc = "handle"
    /\ batch = <<>>
    /\ state = "FRAME" /\ frame # NoFrame
    /\ frame' = update(frame, now)
    /\ last_call' = "update"
    /\ changed' = None /\ sound' = "none"
    /\ main_pc' = "shot_changed"
    /\ UNCHANGED <<state, now, frame_total_seconds, beeps, run_ticks, selected_index>>
    /\ UNCHANGED <<queue, batch, worker_pc, device, posted, handled, last_event, dropped>>
    /\ UNCHANGED run_log

\* run(): changed = self.frame.shot_changed() and the beep
MainShotChanged ==
    /\ main_pc = "shot_changed"
    /\ frame' = shot_changed(frame).frame
    /\ changed' = shot_changed(frame).result
    /\ sound' = Beep(shot_changed(frame).result)
    /\ beeps' = IF Beep(shot_changed(frame).result) = "none"
                THEN beeps
                ELSE Append(beeps, shot_changed(frame).result[2])
    /\ last_call' = "shot_changed"
    /\ main_pc' = "tick"
    /\ UNCHANGED <<state, now, frame_total_seconds, run_ticks, selected_index>>
    /\ UNCHANGED <<queue, batch, worker_pc, device, posted, handled, last_event, dropped>>
    /\ UNCHANGED run_log

\* run(): the events are handled, and there is no frame to update
MainSkip ==
    /\ main_pc = "handle"
    /\ batch = <<>>
    /\ ~(state = "FRAME" /\ frame # NoFrame)
    /\ main_pc' = "tick"
    /\ UNCHANGED <<state, frame, now, changed, sound, frame_total_seconds, last_call,
                   beeps, run_ticks, selected_index>>
    /\ UNCHANGED <<queue, batch, worker_pc, device, posted, handled, last_event, dropped>>
    /\ UNCHANGED run_log

\* run(): self.clock.tick(FPS) ends the iteration, d ticks (less than a
\* second) after the one before
ClockTick(d) ==
    /\ main_pc = "tick"
    /\ now + d <= MaxUiNow
    /\ now' = now + d
    /\ main_pc' = "get"
    /\ UNCHANGED <<state, frame, changed, sound, frame_total_seconds, last_call,
                   beeps, run_ticks, selected_index>>
    /\ UNCHANGED <<queue, batch, worker_pc, device, posted, handled, last_event, dropped>>
    /\ UNCHANGED run_log

\* ---------------------------------------------------- the fob listener thread
\* the fob device appears or disappears
DeviceChange ==
    /\ device' = ~device
    /\ UNCHANGED <<state, frame, now, changed, sound, frame_total_seconds, last_call,
                   beeps, run_ticks, selected_index>>
    /\ UNCHANGED <<queue, batch, main_pc, worker_pc, posted, handled, last_event, dropped>>
    /\ UNCHANGED run_log

\* variant: the worker returns when no device is found
WorkerFind_gives_up ==
    /\ worker_pc = "find"
    /\ worker_pc' = IF device THEN "open" ELSE "exit"
    /\ UNCHANGED <<state, frame, now, changed, sound, frame_total_seconds, last_call,
                   beeps, run_ticks, selected_index>>
    /\ UNCHANGED <<queue, batch, main_pc, device, posted, handled, last_event, dropped>>
    /\ UNCHANGED run_log

\* worker(): path = self._find_fob_device_path(); no path: sleep and look again
WorkerFind ==
    /\ worker_pc = "find"
    /\ worker_pc' = IF device THEN "open" ELSE "find"
    /\ UNCHANGED <<state, frame, now, changed, sound, frame_total_seconds, last_call,
                   beeps, run_ticks, selected_index>>
    /\ UNCHANGED <<queue, batch, main_pc, device, posted, handled, last_event, dropped>>
    /\ UNCHANGED run_log

\* worker(): dev = InputDevice(path); an exception: sleep and look again
WorkerOpen ==
    /\ worker_pc = "open"
    /\ worker_pc' = IF device THEN "read" ELSE "find"
    /\ UNCHANGED <<state, frame, now, changed, sound, frame_total_seconds, last_call,
                   beeps, run_ticks, selected_index>>
    /\ UNCHANGED <<queue, batch, main_pc, device, posted, handled, last_event, dropped>>
    /\ UNCHANGED run_log

\* variant: the worker calls the controller itself instead of posting an event
WorkerRead_toggles(e) ==
    /\ worker_pc = "read"
    /\ device
    /\ last_event' = e
    /\ frame' = IF IsFobPress(e) /\ state = "FRAME" /\ frame # NoFrame
                THEN toggle_run(frame, now)
                ELSE frame
    /\ UNCHANGED <<state, now, changed, sound, frame_total_seconds, last_call,
                   beeps, run_ticks, selected_index>>
    /\ UNCHANGED <<queue, batch, main_pc, worker_pc, device, posted, handled, dropped>>
    /\ UNCHANGED run_log

\* variant: every key event of the fob key posts, whatever its value
WorkerRead_any_value(e) ==
    /\ worker_pc = "read"
    /\ device
    /\ (e.type = "EV_KEY" /\ e.code = FOB_KEY_CODE) => posted < MaxEvents
    /\ last_event' = e
    /\ IF e.type = "EV_KEY" /\ e.code = FOB_KEY_CODE
       THEN /\ queue' = Append(queue, [type |-> "FOB_TRIGGER_EVENT", key |-> "",
                                       scancode |-> 0, n |-> posted + 1])
            /\ posted' = posted + 1
       ELSE UNCHANGED <<queue, posted>>
    /\ UNCHANGED <<state, frame, now, changed, sound, frame_total_seconds, last_call,
                   beeps, run_ticks, selected_index>>
    /\ UNCHANGED <<batch, main_pc, worker_pc, device, handled, dropped>>
    /\ UNCHANGED run_log

\* worker(): for e in dev.read_loop(): a fob key-down posts FOB_TRIGGER_EVENT
WorkerRead(e) ==
    /\ worker_pc = "read"
    /\ device
    /\ IsFobPress(e) => posted < MaxEvents
    /\ last_event' = e
    /\ IF IsFobPress(e)
       THEN /\ queue' = Append(queue, [type |-> "FOB_TRIGGER_EVENT", key |-> "",
                                       scancode |-> 0, n |-> posted + 1])
            /\ posted' = posted + 1
       ELSE UNCHANGED <<queue, posted>>
    /\ UNCHANGED <<state, frame, now, changed, sound, frame_total_seconds, last_call,
                   beeps, run_ticks, selected_index>>
    /\ UNCHANGED <<batch, main_pc, worker_pc, device, handled, dropped>>
    /\ UNCHANGED run_log

\* variant: a failed read loop ends the thread
WorkerReadFails_exits ==
    /\ worker_pc = "read"
    /\ ~device
    /\ worker_pc' = "exit"
    /\ UNCHANGED <<state, frame, now, changed, sound, frame_total_seconds, last_call,
                   beeps, run_ticks, selected_index>>
    /\ UNCHANGED <<queue, batch, main_pc, device, posted, handled, last_event, dropped>>
    /\ UNCHANGED run_log

\* worker(): read_loop() raises (the device is gone): sleep and look again
WorkerReadFails ==
    /\ worker_pc = "read"
    /\ ~device
    /\ worker_pc' = "find"
    /\ UNCHANGED <<state, frame, now, changed, sound, frame_total_seconds, last_call,
                   beeps, run_ticks, selected_index>>
    /\ UNCHANGED <<queue, batch, main_pc, device, posted, handled, last_event, dropped>>
    /\ UNCHANGED run_log

\* a step of the listener thread
Worker ==
    \/ WorkerFind
    \/ WorkerOpen
    \/ \E e \in EvdevEvents : WorkerRead(e)
    \/ WorkerReadFails

\* a step of the main loop of pi_test_2
MainLoop ==
    \/ GetEvents
    \/ HandleEvent
    \/ MainUpdate
    \/ MainShotChanged
    \/ MainSkip
    \/ \E d \in 0..(Res - 1) : ClockTick(d)

\* the fob: the evdev event of its key going down
FobDown == [type |-> "EV_KEY", code |-> FOB_KEY_CODE, value |-> 1]

\* pi_test_2 with a fob that is switched on and stays: keyboard, fob presses
\* and main loop
NextUI ==
    \/ \E k \in Keys : KeyPress(k)
    \/ (~device /\ DeviceChange)
    \/ WorkerFind
    \/ WorkerOpen
    \/ WorkerRead(FobDown)
    \/ MainLoop

SpecUI == Init /\ [][NextUI]_vars

\* pi_test_2 left on the menu: the fob listener, a fob device that comes and
\* goes, and the main loop taking the events
NextFob ==
    \/ DeviceChange
    \/ Worker
    \/ GetEvents
    \/ HandleEvent
    \/ MainSkip
    \/ \E d \in 0..(Res - 1) : ClockTick(d)

SpecFob == Init /\ [][NextFob]_vars

\* the listener thread is scheduled again and again
SpecFobLive == SpecFob /\ WF_vars(Worker)

\* ALPHA_TEST: keyboard (the fob is one of its keys) and main loop
NextAlpha ==
    \/ \E k \in Keys \cup {"K_VOLUMEUP"} : KeyPress(k)
    \/ GetEvents
    \/ HandleEventAlpha
    \/ MainUpdate
    \/ MainShotChanged
    \/ MainSkip
    \/ \E d \in 0..(Res - 1) : ClockTick(d)

SpecAlpha == Init /\ [][NextAlpha]_vars

\* ------------------------------------------- one frame, run by run, with a log
\* FRAME, Enter or fob: self.frame.toggle_run(); a start is logged with the
\* clocks it found and loaded, a stop with the time the run took
RunToggle ==
    /\ state = "FRAME"
    /\ frame # NoFrame
    /\ frame' = toggle_run(frame, now)
    /\ last_call' = "toggle_run"
    /\ changed' = None /\ sound' = "none"
    /\ beeps' = <<>>
    /\ run_log' = IF toggle_run(frame, now).running
                  THEN [run_log EXCEPT !.started_at = now,
                                       !.frame_at_start = frame.frame_remaining,
                                       !.shot_at_start = toggle_run(frame, now).shot_remaining,
                                       !.ended_by = "none"]
                  ELSE IF frame.running
                  THEN [run_log EXCEPT !.ended_by = "toggle_run",
                                       !.short_runs = @ /\ now - run_log.started_at < Res]
                  ELSE run_log
    /\ UNCHANGED <<state, now, frame_total_seconds, run_ticks>>
    /\ UNCHANGED <<selected_index, queuevars>>

\* run(): self.frame.update(), d ticks after the call before; an auto-stop is
\* logged
RunStep(d) ==
    /\ state = "FRAME"
    /\ frame # NoFrame
    /\ now + d <= MaxNow
    /\ now' = now + d
    /\ frame' = update(frame, now + d)
    /\ last_call' = "update"
    /\ changed' = None /\ sound' = "none"
    /\ run_log' = IF frame.running /\ ~update(frame, now + d).running
                  THEN [run_log EXCEPT !.ended_by = "update", !.short_runs = FALSE]
                  ELSE run_log
    /\ UNCHANGED <<state, frame_total_seconds, beeps, run_ticks>>
    /\ UNCHANGED <<selected_index, queuevars>>

\* the update() calls of run(), up to MaxLag seconds apart
RunSteps == \E d \in 0..(MaxLag * Res) : RunStep(d)

NextRun ==
    \/ \E seconds \in Durations : LoadFramePaused(seconds)
    \/ RunToggle
    \/ RunSteps

SpecRun == Init /\ [][NextRun]_vars

\* an update() call of run() that finds the clock advanced
RunTicks == \E d \in 1..(MaxLag * Res) : RunStep(d)

\* the clock keeps advancing and run() keeps calling update()
SpecRunLive == SpecRun /\ WF_vars(RunTicks)

\* a controller is live
Live == frame # NoFrame

\* the fields of the live controller
frame_remaining == frame.frame_remaining
shot_remaining == frame.shot_remaining
running == frame.running
accum == frame.accum
prev_shot_remaining == frame.prev_shot_remaining
last_tick == frame.last_tick

\* ------------------------------------------------------------------ claims

\* C1: a newly created FrameController(D) has frame_remaining = D, running =
\* false, shot_remaining = 0, accumulator = 0 and _prev_shot_remaining = 0, and
\* load_frame_paused(D) leaves the UI on the FRAME screen with it (paused).
C1_CreatedPaused ==
    last_call = "create" =>
        /\ state = "FRAME"
        /\ Live
        /\ frame_remaining = frame_total_seconds
        /\ running = FALSE
        /\ shot_remaining = 0
        /\ accum = 0
        /\ prev_shot_remaining = 0

C1_Witness ==
    /\ last_call = "create"
    /\ state = "FRAME"
    /\ frame_total_seconds = 330
    /\ frame_remaining = 330
    /\ shot_remaining = 0
    /\ ~running

\* C2: toggle_run with frame_remaining > 0 and running false sets running and
\* sets shot_remaining to 10 if frame_remaining <= 300 at the call, else to 15.
C2_StartShotLength ==
    [][(ToggleRun /\ frame_remaining > 0 /\ ~running) =>
          /\ running'
          /\ frame_remaining' = frame_remaining
          /\ shot_remaining' = IF frame_remaining <= 300 THEN 10 ELSE 15]_vars

\* a run started with exactly 300 seconds on the frame clock: 10 seconds
C2_Witness ==
    /\ Live
    /\ last_call = "toggle_run"
    /\ running
    /\ frame_remaining = 300
    /\ shot_remaining = 10

\* C3: toggle_run while running always leaves running = false and
\* shot_remaining = 0, whatever shot time was left.
C3_ManualStop ==
    [][(ToggleRun /\ running) => (~running' /\ shot_remaining' = 0)]_vars

\* a run stopped by toggle_run after the clocks had moved, with frame time left
C3_Witness ==
    /\ Live
    /\ last_call = "toggle_run"
    /\ ~running
    /\ shot_remaining = 0
    /\ 0 < frame_remaining
    /\ frame_remaining < frame_total_seconds

\* C4: while frame_remaining is 0 the controller is never running, and
\* toggle_run on an expired frame leaves running = false and shot_remaining = 0.
C4_ExpiredFrameRefuses ==
    /\ [](Live /\ frame_remaining = 0 => ~running)
    /\ [][(ToggleRun /\ frame_remaining = 0) =>
             (~running' /\ shot_remaining' = 0 /\ frame_remaining' = 0)]_vars

\* toggle_run called on a frame that ran down to 0
C4_Witness ==
    /\ Live
    /\ last_call = "toggle_run"
    /\ frame_total_seconds = 3
    /\ frame_remaining = 0
    /\ ~running
    /\ shot_remaining = 0

\* C5: an update that leaves frame_remaining = 0 or shot_remaining = 0 leaves
\* running = false, and an update made while not running (so every update
\* after an auto-stop, until the next toggle_run) changes neither clock.
C5_AutoStop ==
    [][Update =>
          /\ (frame_remaining' = 0 \/ shot_remaining' = 0) => ~running'
          /\ ~running => /\ ~running'
                         /\ frame_remaining' = frame_remaining
                         /\ shot_remaining' = shot_remaining]_vars

\* an update made after the poll that followed the frame's expiry at shot 7
C5_Witness ==
    /\ Live
    /\ last_call = "update"
    /\ frame_total_seconds = 3
    /\ frame_remaining = 0
    /\ ~running
    /\ shot_remaining = 7
    /\ prev_shot_remaining = 7

\* C6: whenever frame_remaining <= 300, shot_remaining <= 10: a shot started
\* at 15 is cut to 10 by the update that takes the frame clock to 300 or below.
C6_FinalPhaseClamp ==
    Live /\ frame_remaining <= 300 => shot_remaining <= 10

\* the update that took the frame clock to 300 cut an unpolled 15-second shot to 10
C6_Witness ==
    /\ Live
    /\ last_call = "update"
    /\ running
    /\ frame_remaining = 300
    /\ shot_remaining = 10
    /\ prev_shot_remaining = 15

\* C7 as stated: an update that takes dec >= 1 seconds off while running leaves
\* frame_remaining = max(0, old - dec) and shot_remaining = max(0, old - dec).
C7_Original ==
    [][(Update /\ running /\ Dec(frame, now) >= 1) =>
          /\ frame_remaining' = Max(0, frame_remaining - Dec(frame, now))
          /\ shot_remaining' = Max(0, shot_remaining - Dec(frame, now))]_vars

\* C7 amended: frame_remaining = max(0, old - dec), and shot_remaining =
\* max(0, old - dec) unless the new frame_remaining is <= 300 and that value
\* exceeds 10, in which case shot_remaining is 10.
C7_Coupled ==
    [][(Update /\ running /\ Dec(frame, now) >= 1) =>
          /\ frame_remaining' = Max(0, frame_remaining - Dec(frame, now))
          /\ shot_remaining' =
                IF /\ frame_remaining' <= 300
                   /\ Max(0, shot_remaining - Dec(frame, now)) > 10
                THEN 10
                ELSE Max(0, shot_remaining - Dec(frame, now))]_vars

\* two seconds taken off both clocks of a fresh 5:30 frame
C7_Witness ==
    /\ Live
    /\ last_call = "update"
    /\ running
    /\ frame_total_seconds = 330
    /\ frame_remaining = 328
    /\ shot_remaining = 13
    /\ prev_shot_remaining = 15

\* C8 as stated: whenever running is false, shot_remaining is 0.
C8_ShotZeroWhenNotRunning ==
    Live /\ ~running => shot_remaining = 0

\* C9: (a) an update made when the last value was polled (or the run just
\* started) is reported by the poll that follows as (old, new) exactly when it
\* changed shot_remaining, and as None otherwise; (b) a poll leaves
\* shot_remaining alone and the value polled; (c) a second poll with no call in
\* between returns None.
\* (A value set by toggle_run is stored as polled by toggle_run itself and is
\* not reported.)
C9_ReportedOnce ==
    [][/\ (Update /\ prev_shot_remaining = shot_remaining) =>
             shot_changed(frame').result =
                IF shot_remaining' # shot_remaining
                THEN <<shot_remaining, shot_remaining'>>
                ELSE None
       /\ ShotChanged =>
             /\ shot_remaining' = shot_remaining
             /\ prev_shot_remaining' = shot_remaining
       /\ (ShotChanged /\ last_call = "shot_changed") => changed' = None]_vars

\* the poll that reported 6 -> 5 in a run that started at 15
C9_Witness ==
    /\ Live
    /\ last_call = "shot_changed"
    /\ frame_total_seconds = 330
    /\ changed = <<6, 5>>
    /\ sound = "short"
    /\ running

\* C10: (a) after an update that takes shot_remaining from a positive value to
\* 0, a poll returns (prev, 0) with prev > 0 and the long beep is chosen; (b)
\* every pair with cur = 0 chooses the long beep; (c) once 0 has been polled,
\* shot_remaining and the polled value stay 0 until a run is started.
C10_LongBeepOnce ==
    [][/\ (Update /\ shot_remaining > 0 /\ shot_remaining' = 0) =>
             /\ shot_changed(frame').result # None
             /\ shot_changed(frame').result[1] > 0
             /\ shot_changed(frame').result[2] = 0
             /\ Beep(shot_changed(frame').result) = "long"
       /\ (ShotChanged /\ changed' # None /\ changed'[2] = 0) =>
             (changed'[1] > 0 /\ sound' = "long")
       /\ (Live /\ shot_remaining = 0 /\ prev_shot_remaining = 0 /\ Live' /\ ~running') =>
             (shot_remaining' = 0 /\ prev_shot_remaining' = 0)]_vars

\* the poll after a 15-second shot ran out: the long beep
C10_Witness ==
    /\ Live
    /\ last_call = "shot_changed"
    /\ frame_total_seconds = 330
    /\ frame_remaining = 315
    /\ ~running
    /\ changed # None
    /\ changed[2] = 0
    /\ sound = "long"

\* C11: right after any toggle_run call (start, manual stop, refusal) the
\* polled value equals shot_remaining, so a poll made next returns None and no
\* beep is chosen.
C11_ToggleSuppresses ==
    [][ToggleRun =>
          /\ prev_shot_remaining' = shot_remaining'
          /\ shot_changed(frame').result = None
          /\ Beep(shot_changed(frame').result) = "none"]_vars

\* a manual stop of a 5:30 frame after 14 seconds had been taken off, nothing polled
C11_Witness ==
    /\ Live
    /\ last_call = "toggle_run"
    /\ frame_total_seconds = 330
    /\ frame_remaining = 316
    /\ ~running
    /\ shot_remaining = 0
    /\ prev_shot_remaining = 0

\* C12 as stated: with iterations of run() less than a second apart, every
\* run that an iteration auto-stops has played exactly the short beeps for
\* 5, 4, 3, 2, 1 in that order and then one long beep.
C12_Original ==
    [][((\E d \in 0..(Res - 1) : RunIteration(d)) /\ running /\ ~running')
          => beeps' = <<5, 4, 3, 2, 1, 0>>]_vars

\* C12, amended: with iterations of run() less than a second apart, every run
\* that auto-stops with shot_remaining at 0 has played exactly the short beeps
\* for 5, 4, 3, 2, 1 in that order and then one long beep; while a run is on,
\* the beeps played are the first of 5, 4, 3, 2, 1 in that order; once a run
\* has stopped, no iteration plays a beep.  (A run the frame clock ends with
\* shot time left plays no long beep.)
C12_BeepSequence ==
    /\ [][((\E d \in 0..(Res - 1) : RunIteration(d))
             /\ running /\ ~running' /\ shot_remaining' = 0)
            => beeps' = <<5, 4, 3, 2, 1, 0>>]_vars
    /\ []((Live /\ running) => beeps = SubSeq(<<5, 4, 3, 2, 1>>, 1, Len(beeps)))
    /\ [][((\E d \in 0..(Res - 1) : RunIteration(d)) /\ ~running)
            => beeps' = beeps]_vars

\* a run from 330 s has just been auto-stopped by the shot clock, the long
\* beep being the sixth beep of the run
C12_Witness ==
    /\ Live
    /\ last_call = "shot_changed"
    /\ frame_total_seconds = 330
    /\ frame_remaining = 315
    /\ ~running
    /\ shot_remaining = 0
    /\ sound = "long"
    /\ beeps = <<5, 4, 3, 2, 1, 0>>

\* C13: an update whose timestamp equals _last_tick leaves frame_remaining,
\* shot_remaining, running and the accumulator unchanged, and a second update
\* with the timestamp of the first gives the state the first gave.
C13_ZeroElapsed ==
    /\ [](Live => update(update(frame, now), now) = update(frame, now))
    /\ [][(Update /\ now = last_tick) =>
             /\ frame_remaining' = frame_remaining
             /\ shot_remaining' = shot_remaining
             /\ running' = running
             /\ accum' = accum]_vars

\* a running controller just updated, half a second accumulated, clock not moved
C13_Witness ==
    /\ Live
    /\ last_call = "update"
    /\ running
    /\ now = last_tick
    /\ accum > 0

\* C14: the seconds taken off frame_remaining never exceed the whole seconds
\* of clock time that passed while running was true, whether or not update
\* was called while paused.
C14_PausedTimeFree ==
    Live => (frame_total_seconds - frame_remaining) * Res <= run_ticks

\* two seconds were run and charged, at least two more passed paused, and the
\* update called in the pause charged nothing
C14_Witness ==
    /\ Live
    /\ last_call = "update"
    /\ frame_total_seconds = 330
    /\ ~running
    /\ last_tick = now
    /\ run_ticks = 2 * Res
    /\ now >= run_ticks + 2 * Res
    /\ frame_remaining = 328

\* C15 as stated: from any running state, an elapsed time given to one update
\* call, or split over update calls, leaves the same frame_remaining,
\* shot_remaining and running.
C15_Original ==
    (Live /\ running) =>
        \A a, b, c \in 0..MaxSplit :
            LET one   == update(frame, now + a + b + c)
                parts == update(update(update(frame, now + a), now + a + b),
                                now + a + b + c)
            IN  /\ one.frame_remaining = parts.frame_remaining
                /\ one.shot_remaining = parts.shot_remaining
                /\ one.running = parts.running

\* C15, amended: from any running state, an elapsed time given to one update
\* call, or split over update calls, leaves the same frame_remaining,
\* shot_remaining and running, provided the single call does not auto-stop
\* the run and the final-phase clamp is out of play (frame_remaining is still
\* above 300 after the single call, or was at most 300 before it).
C15_SplitIndependent ==
    (Live /\ running) =>
        \A a, b, c \in 0..MaxSplit :
            LET one   == update(frame, now + a + b + c)
                parts == update(update(update(frame, now + a), now + a + b),
                                now + a + b + c)
            IN  (/\ one.running
                 /\ \/ one.frame_remaining > FINAL_PHASE_SECONDS
                    \/ frame_remaining <= FINAL_PHASE_SECONDS)
                => /\ one.frame_remaining = parts.frame_remaining
                   /\ one.shot_remaining = parts.shot_remaining
                   /\ one.running = parts.running

\* a run from 330 s, three seconds in, with a fraction in the accumulator:
\* the parts of what follows cross the seconds at other calls than the whole
C15_Witness ==
    /\ Live
    /\ last_call = "shot_changed"
    /\ frame_total_seconds = 330
    /\ running
    /\ frame_remaining = 327
    /\ shot_remaining = 12
    /\ accum = 1
    /\ last_tick = now

\* C16: an update whose decrement is at least shot_remaining sets
\* shot_remaining to 0 and running to false and takes the whole decrement off
\* frame_remaining (floored at 0).
C16_FullDecrement ==
    [][(Update /\ running /\ Dec(frame, now) >= shot_remaining) =>
          /\ shot_remaining' = 0
          /\ ~running'
          /\ frame_remaining' = Max(0, frame_remaining - Dec(frame, now))]_vars

\* create(330), toggle_run, update 16 seconds later: 314, 0, stopped
C16_Witness ==
    /\ Live
    /\ last_call = "update"
    /\ frame_total_seconds = 330
    /\ frame_remaining = 314
    /\ shot_remaining = 0
    /\ ~running
    /\ prev_shot_remaining = 15
    /\ last_tick = MaxSeconds * Res

\* C17: after an update that decrements, shot_remaining differs from
\* max(0, old - dec) only when frame_remaining is <= 300 and that value is
\* above 10, and then it is exactly 10.
C17_ClampOnlyAboveTen ==
    [][(Update /\ running /\ Dec(frame, now) >= 1) =>
          LET plain == Max(0, shot_remaining - Dec(frame, now))
          IN  /\ (frame_remaining' <= 300 /\ plain > 10) => shot_remaining' = 10
              /\ ~(frame_remaining' <= 300 /\ plain > 10) => shot_remaining' = plain]_vars

\* a 15-second shot started at 302 that crossed 300 and reads 9 at 296: never cut
C17_Witness ==
    /\ Live
    /\ last_call = "update"
    /\ running
    /\ frame_total_seconds = 302
    /\ frame_remaining = 296
    /\ shot_remaining = 9
    /\ prev_shot_remaining = 15

C19_AccumRange ==
    /\ [](Live => (0 <= accum /\ accum < Res))
    /\ [][/\ ToggleRun => accum' = 0
          /\ (Update /\ running /\ ~running') => accum' = 0]_vars

\* the update that stopped a 10-second shot of a 302 frame
C19_Witness ==
    /\ Live
    /\ last_call = "update"
    /\ frame_total_seconds = 302
    /\ frame_remaining = 290
    /\ ~running
    /\ shot_remaining = 0
    /\ prev_shot_remaining > 0
    /\ accum = 0

\* C20: 0 <= frame_remaining <= D and 0 <= shot_remaining <= 15 in every
\* state, whatever elapsed times update is given.
C20_Ranges ==
    Live =>
        /\ 0 <= frame_remaining
        /\ frame_remaining <= frame_total_seconds
        /\ 0 <= shot_remaining
        /\ shot_remaining <= 15

\* one update took more than both clocks held: 3 and 10 both floored at 0
C20_Witness ==
    /\ Live
    /\ last_call = "update"
    /\ frame_total_seconds = 3
    /\ frame_remaining = 0
    /\ shot_remaining = 0
    /\ prev_shot_remaining = 10
    /\ ~running

\* C21 as stated: a controller created with a negative duration has
\* frame_remaining = 0, running = false and shot_remaining = 0.
C21_NegativeClamped ==
    (Live /\ last_call = "create" /\ frame_total_seconds < 0) =>
        /\ frame_remaining = 0
        /\ ~running
        /\ shot_remaining = 0

\* C22: toggle_run, update and shot_changed never raise frame_remaining;
\* update and shot_changed never raise shot_remaining, nor does any step
\* between a start and the stop that follows; a toggle_run raises
\* shot_remaining only when it starts a run.
C22_NonIncreasing ==
    /\ [][(ToggleRun \/ Update \/ ShotChanged)
            => frame_remaining' <= frame_remaining]_vars
    /\ [][(Update \/ ShotChanged) => shot_remaining' <= shot_remaining]_vars
    /\ [][(Live /\ Live' /\ running /\ running')
            => shot_remaining' <= shot_remaining]_vars
    /\ [][(ToggleRun /\ shot_remaining' > shot_remaining)
            => (~running /\ running')]_vars

\* four seconds into a run from 330 s: both clocks have come down by four
C22_Witness ==
    /\ Live
    /\ last_call = "update"
    /\ frame_total_seconds = 330
    /\ running
    /\ frame_remaining = 326
    /\ shot_remaining = 11
    /\ prev_shot_remaining = 15

\* C23: over the life of a controller frame_remaining changes only in an
\* update call made while running is true.
C23_OnlyRunningUpdate ==
    [][(Live /\ Live' /\ frame_remaining' # frame_remaining)
         => (Update /\ running)]_vars

\* a run was stopped by hand with time passed since the last update: the
\* second that had begun is not charged by the stop
C23_Witness ==
    /\ Live
    /\ last_call = "toggle_run"
    /\ frame_total_seconds = 330
    /\ ~running
    /\ frame_remaining = 329
    /\ shot_remaining = 0
    /\ now > last_tick

\* C24: an update call made while running is false changes last_tick and
\* nothing else.
C24_PausedUpdate ==
    [][(Update /\ ~running) => frame' = [frame EXCEPT !.last_tick = now]]_vars

\* a frame of 302 s never started, updated after two seconds or more
C24_Witness ==
    /\ Live
    /\ last_call = "update"
    /\ frame_total_seconds = 302
    /\ ~running
    /\ now >= 2 * Res
    /\ last_tick = now
    /\ frame_remaining = 302
    /\ shot_remaining = 0
    /\ prev_shot_remaining = 0
    /\ accum = 0

\* C25 as stated: _prev_shot_remaining is modified by a shot_changed call that
\* returns a pair and by no other operation; a shot_changed call that returns
\* None changes no field.
C25_Original ==
    /\ [][(Live /\ Live' /\ prev_shot_remaining' # prev_shot_remaining)
            => (ShotChanged /\ changed' # None)]_vars
    /\ [][(ShotChanged /\ changed' # None)
            => prev_shot_remaining' # prev_shot_remaining]_vars
    /\ [][(ShotChanged /\ changed' = None) => frame' = frame]_vars

\* C25, amended: _prev_shot_remaining is modified by a shot_changed call that
\* returns a pair (which stores shot_remaining in it) and by toggle_run, and
\* by no other operation: update never modifies it; a shot_changed call that
\* returns None changes no field.
C25_PrevStore ==
    /\ [][(Live /\ Live' /\ prev_shot_remaining' # prev_shot_remaining)
            => ((ShotChanged /\ changed' # None) \/ ToggleRun)]_vars
    /\ [][(ShotChanged /\ changed' # None)
            => (/\ prev_shot_remaining' # prev_shot_remaining
                /\ prev_shot_remaining' = shot_remaining)]_vars
    /\ [][Update => prev_shot_remaining' = prev_shot_remaining]_vars
    /\ [][(ShotChanged /\ changed' = None) => frame' = frame]_vars

\* the change from 10 to 8 of a run in the final phase has just been reported
\* and stored
C25_Witness ==
    /\ Live
    /\ last_call = "shot_changed"
    /\ frame_total_seconds = 3
    /\ running
    /\ changed = <<10, 8>>
    /\ shot_remaining = 8
    /\ prev_shot_remaining = 8

\* C26: with the listener thread running beside the main loop, every step
\* that changes the controller or the screen is a step of the main loop; no
\* call comes between an update and the shot_changed that follows it; the
\* events waiting carry the numbers handled + 1 .. posted in that order, and
\* handle_event is always given the event after the last one handled.
C26_MainLoopOnly ==
    /\ [][(frame' # frame \/ state' # state)
            => (HandleEvent \/ MainUpdate \/ MainShotChanged)]_vars
    /\ [](main_pc = "shot_changed" => last_call = "update")
    /\ [](/\ handled + Len(batch) + Len(queue) = posted
          /\ \A i \in 1..Len(batch \o queue) : (batch \o queue)[i].n = handled + i)
    /\ [][HandleEvent => Head(batch).n = handled + 1]_vars

\* the loop stands between update and shot_changed of a running frame that
\* the first fob press started; the second press, posted meanwhile, waits
C26_Witness ==
    /\ Live
    /\ running
    /\ main_pc = "shot_changed"
    /\ handled = 2
    /\ posted = 3
    /\ batch = <<>>
    /\ Len(queue) = 1
    /\ queue[1].type = "FOB_TRIGGER_EVENT"
    /\ last_event = FobDown

\* C27: the listener thread never leaves its loop, and if from some time on
\* the fob device stays present, then from some time on the thread stays in
\* the read loop, where a key-down of the fob posts its event.
C27_Reconnects ==
    /\ [](worker_pc \in {"find", "open", "read"})
    /\ (<>[]device) => <>[](worker_pc = "read")
    /\ []((worker_pc = "read" /\ device /\ posted < MaxEvents)
            => ENABLED WorkerRead(FobDown))

\* the thread read a fob press, lost the device, and is back at discovery
\* with the device present again
C27_Witness ==
    /\ worker_pc = "find"
    /\ device
    /\ last_event = FobDown
    /\ posted = 1

\* C28: an event is posted only by the read of an EV_KEY event with code 115
\* and value 1, which posts exactly one FOB_TRIGGER_EVENT; the read of any
\* other event (key-up, auto-repeat, another code, another type) posts nothing.
C28_OnlyKeyDown ==
    /\ [][(posted' # posted \/ Len(queue') > Len(queue))
            => (/\ last_event'.type = "EV_KEY"
                /\ last_event'.code = FOB_KEY_CODE
                /\ last_event'.value = 1
                /\ \E e \in EvdevEvents : WorkerRead(e))]_vars
    /\ [][((\E e \in EvdevEvents : WorkerRead(e))
             /\ last_event'.type = "EV_KEY"
             /\ last_event'.code = FOB_KEY_CODE
             /\ last_event'.value = 1)
            => (/\ posted' = posted + 1
                /\ Len(queue') = Len(queue) + 1
                /\ queue'[Len(queue')].type = "FOB_TRIGGER_EVENT")]_vars
    /\ [][((\E e \in EvdevEvents : WorkerRead(e))
             /\ ~(/\ last_event'.type = "EV_KEY"
                  /\ last_event'.code = FOB_KEY_CODE
                  /\ last_event'.value = 1))
            => (posted' = posted /\ queue' = queue)]_vars

\* the press of the fob was posted, and the auto-repeat of the held key,
\* read last, posted nothing more
C28_Witness ==
    /\ worker_pc = "read"
    /\ last_event = [type |-> "EV_KEY", code |-> FOB_KEY_CODE, value |-> 2]
    /\ posted = 1
    /\ handled = 0
    /\ Len(batch \o queue) = 1

\* C29: a controller is live only on the FRAME screen, back_to_menu drops it,
\* and the Enter that leaves the menu installs a new controller with the
\* duration of the selected button, paused, shot clock at 0, whatever the one
\* before was.
C29_FreshFrame ==
    /\ [](state = "MENU" => frame = NoFrame)
    /\ [][(HandleEvent /\ state = "MENU" /\ state' = "FRAME")
            => (/\ frame'.frame_remaining = Buttons[selected_index + 1]
                /\ ~frame'.running
                /\ frame'.shot_remaining = 0
                /\ frame'.accum = 0
                /\ frame'.prev_shot_remaining = 0
                /\ frame'.last_tick = now)]_vars

\* a frame of 330 s loaded after a running one was dropped
C29_Witness ==
    /\ Live
    /\ last_call = "create"
    /\ dropped = "running"
    /\ frame_total_seconds = 330
    /\ frame_remaining = 330
    /\ ~running
    /\ shot_remaining = 0

\* C30 as stated: in ALPHA_TEST a KEYDOWN of Enter on the FRAME screen calls
\* toggle_run on the frame.
C30_EnterToggles ==
    [][(HandleEventAlpha /\ state = "FRAME"
          /\ Head(batch).key \in {"K_RETURN", "K_KP_ENTER"})
         => frame' = toggle_run(frame, now)]_vars

\* C31: in every state a running controller has frame_remaining > 0 and
\* shot_remaining > 0; so a controller with frame_remaining <= 0, the case of
\* the first branch of toggle_run, is never running.
C31_RunningHasTime ==
    /\ (Live /\ running) => (frame_remaining > 0 /\ shot_remaining > 0)
    /\ (Live /\ frame_remaining <= 0) => ~running

\* the last second of a frame of 3 s: still running, one second on each side
\* of the expiry
C31_Witness ==
    /\ Live
    /\ last_call = "update"
    /\ frame_total_seconds = 3
    /\ running
    /\ frame_remaining = 1
    /\ shot_remaining = 8

\* C35: in every state shot_remaining <= _prev_shot_remaining, and every pair
\* (prev, cur) shot_changed returns has prev > cur >= 0, so that the start of
\* a run is never reported.
C35_ReportsDecrease ==
    /\ Live => shot_remaining <= prev_shot_remaining
    /\ changed # None => (changed[1] > changed[2] /\ changed[2] >= 0)

\* the report of the second in which the final-phase clamp cut the shot clock
\* of a frame of 302 s from 14 to 10
C35_Witness ==
    /\ Live
    /\ last_call = "shot_changed"
    /\ frame_total_seconds = 302
    /\ frame_remaining = 300
    /\ running
    /\ changed = <<14, 10>>
    /\ shot_remaining = 10
    /\ prev_shot_remaining = 10

\* C36: in ALPHA_TEST state = "FRAME" holds exactly when there is a
\* controller, whatever events one iteration handles and in whatever order; no
\* call fails for want of a controller (the toggle_run without a test of
\* self.frame included): update and shot_changed are reached only with one;
\* and handle_event has a next state for every event of the batch.
C36_FrameIffController ==
    /\ (state = "FRAME") <=> (frame # NoFrame)
    /\ state \in {"MENU", "FRAME"}
    /\ last_call # "AttributeError"
    /\ main_pc = "shot_changed" => frame # NoFrame
    /\ (main_pc = "handle" /\ batch # <<>>) => ENABLED HandleEventAlpha

\* a running frame was dropped by Backspace and the fob key that came after
\* it in the queue found the menu: no call was made for it
C36_Witness ==
    /\ state = "MENU"
    /\ frame = NoFrame
    /\ dropped = "running"
    /\ last_call = "back_to_menu"
    /\ handled = 4
    /\ main_pc = "handle"
    /\ batch = <<>>
    /\ now = 0

\* C37: handle_event given a FOB_TRIGGER_EVENT on the FRAME screen calls
\* toggle_run once on the frame and changes nothing else of the UI; given one
\* on the MENU screen it changes neither screen, controller nor selection;
\* either way the event leaves the batch, is counted handled and is not put
\* back on the queue.
C37_FobEvent ==
    /\ [][(HandleEvent /\ Head(batch).type = "FOB_TRIGGER_EVENT" /\ state = "FRAME")
            => (/\ frame' = toggle_run(frame, now)
                /\ last_call' = "toggle_run"
                /\ state' = state
                /\ selected_index' = selected_index)]_vars
    /\ [][(HandleEvent /\ Head(batch).type = "FOB_TRIGGER_EVENT" /\ state = "MENU")
            => (/\ frame' = frame
                /\ state' = state
                /\ selected_index' = selected_index
                /\ last_call' = last_call)]_vars
    /\ [][HandleEvent
            => (batch' = Tail(batch) /\ queue' = queue /\ handled' = handled + 1)]_vars

\* the fob was pressed on the menu, then Enter loaded a frame of 302 s: both
\* events are handled and the frame stays paused over the update that follows
C37_Witness ==
    /\ Live
    /\ last_call = "update"
    /\ last_event = FobDown
    /\ posted = 3
    /\ handled = 3
    /\ selected_index = 1
    /\ frame_total_seconds = 302
    /\ ~running
    /\ frame_remaining = 302
    /\ shot_remaining = 0

\* C38: selected_index is always an index of a button; on the menu Up from 0
\* gives the last index and otherwise one less, Down from the last index gives
\* 0 and otherwise one more, Enter loads a frame with the duration of the
\* selected button; back_to_menu sets selected_index to 0.
C38_MenuSelection ==
    /\ [](selected_index \in 0..(Len(Buttons) - 1))
    /\ [][(HandleEvent /\ state = "MENU" /\ Head(batch).key = "K_UP")
            => selected_index' = IF selected_index = 0 THEN Len(Buttons) - 1
                                 ELSE selected_index - 1]_vars
    /\ [][(HandleEvent /\ state = "MENU" /\ Head(batch).key = "K_DOWN")
            => selected_index' = IF selected_index = Len(Buttons) - 1 THEN 0
                                 ELSE selected_index + 1]_vars
    /\ [][(HandleEvent /\ state = "MENU" /\ Head(batch).key = "K_RETURN")
            => (/\ state' = "FRAME"
                /\ frame'.frame_remaining = Buttons[selected_index + 1]
                /\ selected_index' = selected_index)]_vars
    /\ [][(HandleEvent /\ state = "FRAME" /\ state' = "MENU")
            => selected_index' = 0]_vars

\* Up from the first button wrapped to the last, and Enter loaded its
\* duration; Backspace then set the selection back to 0
C38_Witness ==
    /\ state = "MENU"
    /\ selected_index = 0
    /\ last_call = "back_to_menu"
    /\ dropped = "expired"
    /\ handled = 3
    /\ posted = 3

\* C32: every run ends.  An update called when the time since the start has
\* reached the shot length loaded at the start (15 or 10 s) leaves the
\* controller stopped; and when the clock keeps advancing and update keeps
\* being called, every run whose shot length fits in the time modelled comes to
\* an end, which is update's doing unless a toggle_run came first.
C32_EveryRunEnds ==
    /\ []((Live /\ running) => run_log.shot_at_start \in
                                   {SHOT_CLOCK_NORMAL_SECONDS, SHOT_CLOCK_FINAL_SECONDS})
    /\ []((Live /\ running) => run_log.ended_by = "none")
    /\ []((Live /\ run_log.ended_by = "update") => ~running)
    /\ [][(RunSteps /\ running
               /\ now' - run_log.started_at >= run_log.shot_at_start * Res)
            => (~running' /\ run_log'.ended_by = "update")]_vars
    /\ (Live /\ running
           /\ run_log.started_at + run_log.shot_at_start * Res <= MaxNow)
          ~> (Live /\ ~running /\ run_log.ended_by \in {"update", "toggle_run"})

\* a run of 15 s started 0.5 s into a frame of 330 s was ended by update
C32_Witness ==
    /\ Live
    /\ frame_total_seconds = 330
    /\ ~running
    /\ run_log.ended_by = "update"
    /\ run_log.started_at = 1
    /\ run_log.shot_at_start = 15
    /\ last_tick = 1 + 15 * Res
    /\ frame_remaining = 315
    /\ shot_remaining = 0
    /\ last_call = "update"

\* C33: during a run, under a clock that does not go back, frame_remaining
\* is its value at the start less the whole seconds of the time from the start
\* to the latest update, however that time was divided into update calls, and
\* _accum is the fraction left over; an update at which less than a second has
\* accumulated changes neither clock.
C33_FractionCarried ==
    /\ []((Live /\ running)
            => /\ frame_remaining = run_log.frame_at_start
                                      - ((last_tick - run_log.started_at) \div Res)
               /\ accum = (last_tick - run_log.started_at) % Res)
    /\ [][(RunSteps /\ running /\ accum + (now' - last_tick) < Res)
            => (/\ frame_remaining' = frame_remaining
                /\ shot_remaining' = shot_remaining
                /\ running')]_vars

\* 2.5 s into a run, after updates that each found less than 2 s: two
\* seconds are charged and half a second is kept
C33_Witness ==
    /\ Live
    /\ running
    /\ last_call = "update"
    /\ frame_total_seconds = 330
    /\ run_log.started_at = 1
    /\ run_log.frame_at_start = 330
    /\ last_tick = 1 + 2 * Res + 1
    /\ accum = 1
    /\ frame_remaining = 328
    /\ shot_remaining = 13

\* C34: toggle_run changes frame_remaining neither at a stop nor at a start
\* and leaves _accum at 0; so as long as every run of a frame was stopped by
\* toggle_run less than a second after its start, frame_remaining is the
\* duration the frame was loaded with, however many such runs there were.
C34_ShortRunsFree ==
    /\ []((Live /\ run_log.short_runs
                 /\ (running => now - run_log.started_at < Res))
            => frame_remaining = frame_total_seconds)
    /\ [][RunToggle => (frame_remaining' = frame_remaining /\ accum' = 0)]_vars

\* the frame of 302 s after runs of half a second each, the last one stopped
\* by hand 8 s after the frame was loaded
C34_Witness ==
    /\ Live
    /\ ~running
    /\ run_log.short_runs
    /\ run_log.ended_by = "toggle_run"
    /\ run_log.started_at = MaxNow \div 2 - 1
    /\ now = MaxNow \div 2
    /\ last_call = "toggle_run"
    /\ frame_total_seconds = 302
    /\ frame_remaining = 302

====
